---- MODULE Spec2Model ----
(***************************************************************************)
(* Credential core of the F1 workflow repository:                          *)
(*   - SecureCredentialManager (enhanced_credential_manager.py): master    *)
(*     key file, service-account key file, KEY=VALUE config file, the      *)
(*     read accessors over os.environ, encrypt/decrypt of a credential;    *)
(*   - the manual OAuth authorization-code exchange                        *)
(*     (manual_oauth_simple.py) that writes the refresh token into the     *)
(*     same config file.                                                   *)
(*                                                                         *)
(* Text is a sequence of atoms.  NL and EQ are the characters '\n' and     *)
(* '='; every other atom stands for a chunk of characters that contains    *)
(* neither of them (a key name, a value, ordinary text).  A file is NoFile *)
(* when it does not exist, else its text.                                  *)
(***************************************************************************)
EXTENDS Naturals, Sequences, FiniteSets

VARIABLES
    envFile,      \* config/.env: NoFile or its text
    startFile,    \* history: envFile when the behaviour started
    opKind,       \* history: what the last _update_env_var call did
    clean,        \* history: no value written so far contained a newline
    calls,        \* history: the <<key, value>> updates of a two-update run
    keyFile,      \* config/.encryption_key: NoFile or the key bytes
    mgrKey,       \* _encryption_key of the running process's manager
    keyBranch,    \* history: branch the last _get_or_create_encryption_key took
    saFile,       \* config/service_account.json: NoFile or its content
    saResult,     \* value returned by the last set_service_account_credentials
    saSource,     \* history: the file the last set_service_account_credentials was given
    environ,      \* os.environ of the running process (the environment overlay)
    lastWritten,  \* history: the value last handed to update, per variable
    ret,          \* value returned by the last read accessor
    plain,        \* the credential handed to encrypt_credential
    secret,       \* what encrypt_credential returned
    decrypted,    \* what decrypt_credential returned
    encKey,       \* history: the key `secret` was encrypted under
    decKey,       \* history: the key the last decrypt_credential used
    pc,           \* state of the OAuth flow
    authCode,     \* what the operator typed at the prompt
    requests,     \* number of POSTs sent to the token endpoint
    response,     \* what the token endpoint answered
    trail,        \* history: the OAuth states visited, in order
    procs,        \* two concurrent processes: position and local data of each
    lastText,     \* history: the text handed to the last write of the config file
    tool,         \* outcome of the last tool wrapper call
    wf            \* the orchestrator's counter and its last workflow_result

storeVars == <<startFile, opKind, clean, calls>>
mgrVars   == <<keyFile, mgrKey, keyBranch, saFile, saResult>>
oauthVars == <<pc, authCode, requests, response, trail>>
faceVars  == <<saSource, environ, lastWritten, ret>>
cryptoVars == <<plain, secret, decrypted, encKey, decKey>>
extVars   == <<procs, lastText, tool, wf>>
vars      == <<envFile, storeVars, mgrVars, oauthVars, faceVars, cryptoVars,
               extVars>>

\* the text of a file that does not exist: an atom no file or input holds
NoFile == <<"<absent>">>
NL     == "\n"
EQ     == "="

----------------------------------------------------------------------------
(* Bounds of the model *)

\* longest config file a behaviour starts from
MaxStartLen == 3
\* longest value handed to update in the store specification
MaxValLen == 3
\* longest config file the store specification lets an update produce
MaxFileLen == 5
\* number of distinct keys Fernet.generate_key can draw
NumKeys == 3
\* longest config file a behaviour of the credential manager starts from
MaxMgrStartLen == 2
\* longest text the operator types at the authorization-code prompt
MaxCodeLen == 2

----------------------------------------------------------------------------
(* Python str operations on text *)

\* every text over the atoms of S of length at most n
TextsUpTo(S, n) == UNION {[1..k -> S] : k \in 0..n}

\* s.startswith(p)
StartsWith(s, p) == Len(p) <= Len(s) /\ SubSeq(s, 1, Len(p)) = p

\* p in s
Contains(s, p) ==
    \E i \in 0..(Len(s) - Len(p)) : SubSeq(s, i + 1, i + Len(p)) = p

\* index of the first NL of s, 0 when there is none
RECURSIVE FirstNL(_, _)
FirstNL(s, i) ==
    IF i > Len(s) THEN 0
    ELSE IF s[i] = NL THEN i
    ELSE FirstNL(s, i + 1)

\* s.split('\n'): always at least one segment, '' splits to ['']
RECURSIVE Split(_)
Split(s) ==
    LET i == FirstNL(s, 1)
    IN IF i = 0 THEN <<s>>
       ELSE <<SubSeq(s, 1, i - 1)>> \o Split(SubSeq(s, i + 1, Len(s)))

\* '\n'.join(lines)
RECURSIVE Join(_)
Join(lines) ==
    IF Len(lines) = 0 THEN <<>>
    ELSE IF Len(lines) = 1 THEN lines[1]
    ELSE lines[1] \o <<NL>> \o Join(Tail(lines))

\* a mutant of Strip: the input is taken as typed
StripNothing(s) == s

\* s.strip() with the atom " " as the only whitespace
RECURSIVE Strip(_)
Strip(s) ==
    IF Len(s) = 0 THEN s
    ELSE IF s[1] = " " THEN Strip(Tail(s))
    ELSE IF s[Len(s)] = " " THEN Strip(SubSeq(s, 1, Len(s) - 1))
    ELSE s

\* f"{key}={value}"
Entry(key, value) == key \o <<EQ>> \o value

----------------------------------------------------------------------------
(* CredentialStore: SecureCredentialManager._update_env_var *)

\* line.startswith(f"{key}=")
LineMatches(line, key) == StartsWith(line, key \o <<EQ>>)

\* index of the first line the loop of _update_env_var rewrites, 0 if none
FirstMatch(lines, key) ==
    IF \E i \in 1..Len(lines) : LineMatches(lines[i], key)
    THEN CHOOSE i \in 1..Len(lines) :
            /\ LineMatches(lines[i], key)
            /\ \A j \in 1..(i - 1) : ~LineMatches(lines[j], key)
    ELSE 0

\* what _update_env_var reads: '' when the file does not exist
ReadEnv(file) == IF file = NoFile THEN <<>> ELSE file

\* a mutant of _update_env_var: the new entry is always appended
UpdateAlwaysAppends(file, key, value) ==
    Join(Append(Split(ReadEnv(file)), Entry(key, value)))

\* a mutant of _update_env_var: `updated` is not set, so a replaced entry is
\* appended as well
UpdateForgetsFlag(file, key, value) ==
    LET lines == Split(ReadEnv(file))
        i     == FirstMatch(lines, key)
    IN IF i # 0
       THEN Join(Append([lines EXCEPT ![i] = Entry(key, value)], Entry(key, value)))
       ELSE Join(Append(lines, Entry(key, value)))

\* a mutant of _update_env_var: a new entry is put before the other lines
UpdatePrepends(file, key, value) ==
    LET lines == Split(ReadEnv(file))
        i     == FirstMatch(lines, key)
    IN IF i # 0
       THEN Join([lines EXCEPT ![i] = Entry(key, value)])
       ELSE Join(<<Entry(key, value)>> \o lines)

\* the text _update_env_var(key, value) writes back to the file
_update_env_var(file, key, value) ==
    LET lines == Split(ReadEnv(file))
        i     == FirstMatch(lines, key)
    IN IF i # 0
       THEN Join([lines EXCEPT ![i] = Entry(key, value)])
       ELSE Join(Append(lines, Entry(key, value)))

\* the lines of a file that are records of `key`
LinesFor(file, key) ==
    LET lines == Split(ReadEnv(file))
    IN {i \in 1..Len(lines) : LineMatches(lines[i], key)}

\* the key of a line: the text before its first '=' (lines without '=' have none)
HasKey(line) == \E i \in 1..Len(line) : line[i] = EQ
KeyOf(line) ==
    LET i == CHOOSE j \in 1..Len(line) :
                 line[j] = EQ /\ \A k \in 1..(j - 1) : line[k] # EQ
    IN SubSeq(line, 1, i - 1)

\* no key appears on more than one line of the file
UniqueKeys(file) ==
    LET lines == Split(ReadEnv(file))
    IN \A i, j \in 1..Len(lines) :
          (i # j /\ HasKey(lines[i]) /\ HasKey(lines[j]))
              => KeyOf(lines[i]) # KeyOf(lines[j])

----------------------------------------------------------------------------
(* Idle values of the parts a specification does not exercise *)

NoKey      == <<>>
None       == "None"
NoSA       == [kind |-> "absent", fields |-> {}, mode |-> 0, loads |-> FALSE]
NoResponse ==
    [kind |-> "none", status |-> 0, parse |-> "invalid", rt |-> "absent",
     token |-> <<>>, at |-> FALSE]

StoreIdle ==
    /\ opKind = "none"
    /\ clean = TRUE
    /\ calls = <<>>

MgrIdle ==
    /\ keyFile = NoFile
    /\ mgrKey = NoKey
    /\ keyBranch = "none"
    /\ saFile = NoSA
    /\ saResult = None

OAuthIdle ==
    /\ pc = "IDLE"
    /\ authCode = <<>>
    /\ requests = 0
    /\ response = NoResponse
    /\ trail = <<>>

\* the environment variables the accessors read
TELEGRAM_BOT_TOKEN == "TELEGRAM_BOT_TOKEN"
TELEGRAM_CHAT_ID   == "TELEGRAM_CHAT_ID"
EnvNames           == {TELEGRAM_BOT_TOKEN, TELEGRAM_CHAT_ID}

\* an environment in which neither variable is set
NoEnviron  == [n \in EnvNames |-> <<>>]
\* no update of the variable so far
NotWritten == <<"<never>">>
\* no read accessor has returned yet
NoReturn ==
    [op |-> "none", creds |-> "None", service_account |-> FALSE,
     telegram |-> FALSE, bot_token |-> <<>>, chat_id |-> <<>>]
\* decrypt_credential has not returned yet
NoOutcome == [kind |-> "none", val |-> <<>>]

FaceIdle ==
    /\ saSource = NoSA
    /\ environ = NoEnviron
    /\ lastWritten = [n \in EnvNames |-> NotWritten]
    /\ ret = NoReturn

CryptoIdle ==
    /\ plain = <<>>
    /\ secret = <<>>
    /\ decrypted = NoOutcome
    /\ encKey = NoKey
    /\ decKey = NoKey

\* the two processes of the interleaving specifications
Procs == {1, 2}
\* a process that has not started its operation
IdleProc == [pc |-> "idle", key |-> <<>>, value |-> <<>>, text |-> <<>>]
\* no tool wrapper has returned yet
NoTool ==
    [name |-> "none", creds |-> "None", success |-> FALSE, error |-> "",
     built |-> FALSE, calls |-> 0]
\* the orchestrator has not run a workflow yet
NoRun ==
    [ran |-> FALSE, sheet |-> FALSE, steps |-> <<>>, attempted |-> <<>>,
     success |-> FALSE, error |-> "None", before |-> 0, executed |-> 0]

ExtIdle ==
    /\ procs = [p \in Procs |-> IdleProc]
    /\ lastText = NotWritten
    /\ tool = NoTool
    /\ wf = NoRun

----------------------------------------------------------------------------
(* The store on its own: update(key, value) with arbitrary keys and values *)

StoreAtoms  == {"A", "B", EQ, NL, "x"}
MgrAtoms    == {"USE_SERVICE_ACCOUNT", "SERVICE_ACCOUNT_FILE", EQ, NL, "x"}
OAuthAtoms  == {"GMAIL_REFRESH_TOKEN", "GDRIVE_REFRESH_TOKEN", EQ, NL, "x"}
StoreKeys   == {<<"A">>, <<"B">>}
ValueAtoms  == {"A", EQ, NL}
StoreValues == TextsUpTo(ValueAtoms, MaxValLen)

HasNewline(text) == \E i \in 1..Len(text) : text[i] = NL

\* the config files a behaviour may start from: any text, or no file
StartFiles(atoms) == {NoFile} \cup TextsUpTo(atoms, MaxStartLen)

InitStore ==
    /\ envFile \in {f \in StartFiles(StoreAtoms) : UniqueKeys(f)}
    /\ startFile = envFile
    /\ StoreIdle /\ MgrIdle /\ OAuthIdle /\ FaceIdle /\ CryptoIdle /\ ExtIdle

\* one call _update_env_var(key, value)
Update(key, value) ==
    /\ LET written == _update_env_var(envFile, key, value)
       IN /\ Len(written) <= MaxFileLen
          /\ envFile' = written
    /\ opKind' = IF LinesFor(envFile, key) # {} THEN "replaced" ELSE "appended"
    /\ clean' = (clean /\ ~HasNewline(value))
    /\ UNCHANGED <<startFile, calls, mgrVars, oauthVars, faceVars, cryptoVars, extVars>>

NextStore == \E key \in StoreKeys, value \in StoreValues : Update(key, value)

SpecStore == InitStore /\ [][NextStore]_vars

----------------------------------------------------------------------------
(* Two updates in a row, from any starting file *)

\* longest value of the two-update run
MaxCallValLen == 1

CallValues == TextsUpTo(ValueAtoms, MaxCallValLen)

InitTwice ==
    /\ envFile \in StartFiles(StoreAtoms)
    /\ startFile = envFile
    /\ StoreIdle /\ MgrIdle /\ OAuthIdle /\ FaceIdle /\ CryptoIdle /\ ExtIdle

\* the first or the second _update_env_var(key, value) of the run
CallUpdate(key, value) ==
    /\ Len(calls) < 2
    /\ envFile' = _update_env_var(envFile, key, value)
    /\ calls' = Append(calls, <<key, value>>)
    /\ opKind' = IF LinesFor(envFile, key) # {} THEN "replaced" ELSE "appended"
    /\ clean' = (clean /\ ~HasNewline(value))
    /\ UNCHANGED <<startFile, mgrVars, oauthVars, faceVars, cryptoVars, extVars>>

NextTwice == \E key \in StoreKeys, value \in CallValues : CallUpdate(key, value)

SpecTwice == InitTwice /\ [][NextTwice]_vars

\* C3: update(K, V1) then update(K, V2), from a file that is absent, empty or
\* holds only other keys, leaves exactly one line for K, and it is K=V2
\* (V1 and V2 plain values, without a line break).
C3_TwoUpdatesOneLine ==
    (/\ Len(calls) = 2
     /\ calls[1][1] = calls[2][1]
     /\ clean
     /\ LinesFor(startFile, calls[1][1]) = {})
    => LET K  == calls[2][1]
           ls == Split(envFile)
       IN /\ envFile # NoFile
          /\ Cardinality(LinesFor(envFile, K)) = 1
          /\ \A i \in LinesFor(envFile, K) : ls[i] = Entry(K, calls[2][2])

\* C3 witness: the second update replaced the line the first one appended,
\* in a file that also holds another key
C3_Witness ==
    /\ Len(calls) = 2
    /\ calls[1][1] = calls[2][1]
    /\ calls[1][2] # calls[2][2]
    /\ clean
    /\ LinesFor(startFile, calls[1][1]) = {}
    /\ startFile # NoFile /\ Len(startFile) > 0
    /\ opKind = "replaced"

\* between the files old and new one line changed: the first line of old
\* that is a record of key became key=value, or, old holding no record of
\* key, key=value was added after the last line; all other lines are the same
\* and in the same order
OneLineChanged(old, new, key, value) ==
    LET o == Split(ReadEnv(old))
        n == Split(new)
        e == key \o <<EQ>> \o value
        records == {i \in 1..Len(o) : StartsWith(o[i], key \o <<EQ>>)}
    IN /\ new # NoFile
       /\ IF records # {}
          THEN /\ Len(n) = Len(o)
               /\ \E i \in records :
                     /\ \A j \in records : i <= j
                     /\ n[i] = e
                     /\ \A j \in 1..Len(o) : j # i => n[j] = o[j]
          ELSE /\ Len(n) = Len(o) + 1
               /\ n[Len(n)] = e
               /\ \A j \in 1..Len(o) : n[j] = o[j]

\* the <<key, value>> of the update a step made
LastCall(history) == history[Len(history)]

C4_UniqueKeysAnyValue == UniqueKeys(envFile)

\* C4: starting from a file with unique keys, after any sequence of updates
\* whose keys hold no '=' or line break and whose values hold no line break
\* (they may hold '='), no key appears on more than one line.
C4_UniqueKeysPlainValues == clean => UniqueKeys(envFile)

\* C4 witness: an update with a value holding '=' replaced an existing line
C4_Witness ==
    /\ clean
    /\ opKind = "replaced"
    /\ envFile # NoFile
    /\ \E i \in 1..Len(Split(envFile)) : Split(envFile)[i] = <<"A", EQ, "A", EQ>>

----------------------------------------------------------------------------
(* SecureCredentialManager: master key and service-account key material *)

\* the keys Fernet.generate_key can return
KeyBytes == <<"k1", "k2", "k3", "k4", "k5", "k6">>
Keys == {<<KeyBytes[n]>> : n \in 1..NumKeys}

\* a mutant of _get_or_create_encryption_key: a fresh key on every call
AlwaysGenerateKey(file, generated) == [key |-> generated, file |-> generated]

\* _get_or_create_encryption_key: the key returned and the key file afterwards
_get_or_create_encryption_key(file, generated) ==
    IF file # NoFile
    THEN [key |-> file, file |-> file]
    ELSE [key |-> generated, file |-> generated]

\* required_fields
RequiredFields == {"type", "project_id", "private_key", "client_email"}

\* os.chmod(path, 0o600)
OwnerOnly == 384

\* the fields Credentials.from_service_account_file reads from the four
LoaderFields == {"private_key", "client_email"}

\* a file handed to set_service_account_credentials: not JSON ("garbage"), a
\* JSON object with the fields `fields`, or a JSON array of the strings `fields`
\* (the empty array and the array of the four names);
\* `loads` tells whether the rest of an object's content is what
\* Credentials.from_service_account_file asks for (a token_uri, a private key
\* that parses)
SourceFiles ==
    [kind : {"object"}, fields : SUBSET RequiredFields, mode : {420},
     loads : {FALSE}]
        \cup [kind : {"array"}, fields : {{}, RequiredFields}, mode : {420},
              loads : {FALSE}]
        \cup {[kind |-> "garbage", fields |-> {}, mode |-> 420, loads |-> FALSE]}
        \cup {f \in [kind : {"object"}, fields : SUBSET RequiredFields,
                      mode : {420}, loads : {TRUE}] : LoaderFields \subseteq f.fields}

\* shutil.copy2(source, service_account_file); os.chmod(service_account_file, 0o600)
CopyAndSecure(src) == [src EXCEPT !.mode = OwnerOnly]

\* all(field in sa_data for field in required_fields)
AllRequired(data) == RequiredFields \subseteq data.fields

USE_SERVICE_ACCOUNT  == <<"USE_SERVICE_ACCOUNT">>
SERVICE_ACCOUNT_FILE == <<"SERVICE_ACCOUNT_FILE">>
SaPath               == <<"config/service_account.json">>

\* a mutant of set_service_account_credentials: the copy keeps the mode of
\* the source, os.chmod is not called
SetWithoutChmod(sa, env, src) ==
    IF src = NoSA
    THEN [sa |-> sa, env |-> env, result |-> "False"]
    ELSE IF src.kind = "object" /\ AllRequired(src)
    THEN [sa     |-> src,
          env    |-> _update_env_var(
                         _update_env_var(env, USE_SERVICE_ACCOUNT, <<"true">>),
                         SERVICE_ACCOUNT_FILE, SaPath),
          result |-> "True"]
    ELSE [sa |-> src, env |-> env, result |-> "False"]

\* set_service_account_credentials(path): the stored key file, the config file
\* and the value returned, after the call; src = NoSA when path does not exist
set_service_account_credentials(sa, env, src) ==
    IF src = NoSA
    THEN [sa |-> sa, env |-> env, result |-> "False"]
    ELSE IF src.kind = "garbage"
    THEN [sa |-> CopyAndSecure(src), env |-> env, result |-> "False"]
    ELSE IF ~AllRequired(src)
    THEN [sa |-> CopyAndSecure(src), env |-> env, result |-> "False"]
    ELSE IF src.kind # "object"
    THEN [sa |-> CopyAndSecure(src), env |-> env, result |-> "False"]
    ELSE [sa     |-> CopyAndSecure(src),
          env    |-> _update_env_var(
                         _update_env_var(env, USE_SERVICE_ACCOUNT, <<"true">>),
                         SERVICE_ACCOUNT_FILE, SaPath),
          result |-> "True"]

\* Credentials.from_service_account_file(path): the credentials, or an
\* exception (no such file, not a JSON object, a field it needs is missing)
from_service_account_file(sa) ==
    IF sa # NoSA /\ sa.kind = "object" /\ LoaderFields \subseteq sa.fields /\ sa.loads
    THEN "Credentials"
    ELSE "raise"

\* a mutant of get_service_account_credentials: no existence test, no except
GetCredentialsUnguarded(sa) == from_service_account_file(sa)

\* get_service_account_credentials(): the value returned
get_service_account_credentials(sa) ==
    IF sa = NoSA
    THEN "None"
    ELSE LET credentials == from_service_account_file(sa)
         IN IF credentials = "raise" THEN "None" ELSE credentials

\* a mutant of get_telegram_credentials: the two variables are swapped
GetTelegramSwapped(env) ==
    [bot_token |-> env[TELEGRAM_CHAT_ID], chat_id |-> env[TELEGRAM_BOT_TOKEN]]

\* get_telegram_credentials(): os.getenv(name, '') of the two variables
get_telegram_credentials(env) ==
    [bot_token |-> env[TELEGRAM_BOT_TOKEN], chat_id |-> env[TELEGRAM_CHAT_ID]]

\* validate_all_credentials(): the two flags
validate_all_credentials(sa, env) ==
    LET sa_creds == get_service_account_credentials(sa)
        telegram == get_telegram_credentials(env)
    IN [service_account |-> sa_creds # "None",
        telegram        |-> telegram.bot_token # <<>> /\ telegram.chat_id # <<>>]

\* most lines of a config file built from whole records
MaxMgrStartLines == 2

\* the config files a behaviour of the manager may start from: no file, any
\* short text, or the manager's own records on a few lines
MgrLines == {Entry(USE_SERVICE_ACCOUNT, <<"true">>), Entry(SERVICE_ACCOUNT_FILE, SaPath)}
MgrStartFiles ==
    {NoFile} \cup TextsUpTo(MgrAtoms, MaxMgrStartLen)
        \cup {Join(ls) : ls \in TextsUpTo(MgrLines, MaxMgrStartLines) \ {<<>>}}

\* the environments a process may be started with: each variable unset or set
OsEnvirons == [EnvNames -> {<<>>, <<"v">>}]

Init ==
    /\ envFile \in MgrStartFiles
    /\ startFile = envFile
    /\ StoreIdle /\ MgrIdle /\ OAuthIdle /\ FaceIdle /\ CryptoIdle /\ ExtIdle

\* SecureCredentialManager(): a process starts with the environment `env`, or
\* a running process builds another manager
NewManager(generated, env) ==
    /\ LET r == _get_or_create_encryption_key(keyFile, generated)
       IN /\ keyFile' = r.file
          /\ mgrKey' = r.key
    /\ keyBranch' = IF keyFile # NoFile THEN "loaded" ELSE "created"
    /\ environ' = IF mgrKey = NoKey THEN env ELSE environ
    /\ UNCHANGED <<envFile, storeVars, saFile, saResult, oauthVars,
                   saSource, lastWritten, ret, cryptoVars, extVars>>

\* the process ends; its manager, its environment and what it was returned
\* are gone
ExitProcess ==
    /\ mgrKey # NoKey
    /\ mgrKey' = NoKey
    /\ environ' = NoEnviron
    /\ ret' = NoReturn
    /\ UNCHANGED <<envFile, storeVars, keyFile, keyBranch, saFile, saResult,
                   oauthVars, saSource, lastWritten, cryptoVars, extVars>>

\* credential_manager.set_service_account_credentials(path)
SetServiceAccount(src) ==
    /\ mgrKey # NoKey
    /\ LET r == set_service_account_credentials(saFile, envFile, src)
       IN /\ saFile' = r.sa
          /\ envFile' = r.env
          /\ saResult' = r.result
    /\ saSource' = src
    /\ ret' = NoReturn
    /\ UNCHANGED <<storeVars, keyFile, mgrKey, keyBranch, oauthVars,
                   environ, lastWritten, cryptoVars, extVars>>

\* credential_manager.get_service_account_credentials()
GetServiceAccount ==
    /\ mgrKey # NoKey
    /\ ret' = [NoReturn EXCEPT !.op = "get_service_account_credentials",
                               !.creds = get_service_account_credentials(saFile)]
    /\ UNCHANGED <<envFile, storeVars, mgrVars, oauthVars,
                   saSource, environ, lastWritten, cryptoVars, extVars>>

\* credential_manager.get_telegram_credentials()
GetTelegram ==
    /\ mgrKey # NoKey
    /\ LET r == get_telegram_credentials(environ)
       IN ret' = [NoReturn EXCEPT !.op = "get_telegram_credentials",
                                  !.bot_token = r.bot_token,
                                  !.chat_id = r.chat_id]
    /\ UNCHANGED <<envFile, storeVars, mgrVars, oauthVars,
                   saSource, environ, lastWritten, cryptoVars, extVars>>

\* credential_manager.validate_all_credentials()
ValidateAll ==
    /\ mgrKey # NoKey
    /\ LET r == validate_all_credentials(saFile, environ)
       IN ret' = [NoReturn EXCEPT !.op = "validate_all_credentials",
                                  !.service_account = r.service_account,
                                  !.telegram = r.telegram]
    /\ UNCHANGED <<envFile, storeVars, mgrVars, oauthVars,
                   saSource, environ, lastWritten, cryptoVars, extVars>>

\* the key files and the writers of the config file; the environment plays
\* no part in them
Next ==
    \/ \E generated \in Keys : NewManager(generated, NoEnviron)
    \/ ExitProcess
    \/ \E src \in SourceFiles \cup {NoSA} : SetServiceAccount(src)

Spec == Init /\ [][Next]_vars

\* the read accessors, in processes started with any environment; the content
\* of the config file plays no part in what they return
InitFacade ==
    /\ envFile \in {NoFile, <<>>}
    /\ startFile = envFile
    /\ StoreIdle /\ MgrIdle /\ OAuthIdle /\ FaceIdle /\ CryptoIdle /\ ExtIdle

NextFacade ==
    \/ \E generated \in Keys, env \in OsEnvirons : NewManager(generated, env)
    \/ ExitProcess
    \/ \E src \in SourceFiles \cup {NoSA} : SetServiceAccount(src)
    \/ GetServiceAccount
    \/ GetTelegram
    \/ ValidateAll

SpecFacade == InitFacade /\ [][NextFacade]_vars

\* C1: the stored service-account key file, whenever it exists, is a JSON
\* object holding all four required fields.
C1_StoredKeyHasAllFields ==
    saFile # NoSA => (saFile.kind = "object" /\ AllRequired(saFile))

\* C2: once the key file exists no step changes it, and the key a manager
\* holds is the content of the key file.
C2_KeyNeverRegenerated ==
    /\ [](mgrKey # NoKey => mgrKey = keyFile)
    /\ [][keyFile # NoFile => keyFile' = keyFile]_vars

\* C2 witness: a later manager loaded the existing key file
C2_Witness ==
    /\ keyBranch = "loaded"
    /\ mgrKey = keyFile
    /\ saFile # NoSA

\* what the caller is to learn from a failed set_service_account_credentials:
\* the kind of failure and, for a missing field, which fields are missing
Rejected(src) ==
    src # NoSA /\ (src.kind = "garbage" \/ (src.kind = "object" /\ ~AllRequired(src)))
FailureOf(src) ==
    IF src.kind = "garbage"
    THEN [error |-> "ParseError", missing |-> {}]
    ELSE [error |-> "SchemaError", missing |-> RequiredFields \ src.fields]

\* C11: the value set_service_account_credentials returns tells an
\* unparseable file from a file lacking a required field, and tells which
\* field is missing: two files that fail differently are never answered with
\* the same value.
C11_FailureNamedInResult ==
    \A other \in SourceFiles :
        (/\ saResult # None
         /\ Rejected(saSource) /\ Rejected(other)
         /\ FailureOf(other) # FailureOf(saSource))
        => set_service_account_credentials(saFile, envFile, other).result # saResult

\* number of lines of the file that are exactly `line`
CountLines(file, line) ==
    LET lines == Split(ReadEnv(file))
    IN Cardinality({i \in 1..Len(lines) : lines[i] = line})

\* a parseable file holding the four required fields
Accepted(src) == src # NoSA /\ src.kind = "object" /\ AllRequired(src)

\* the call succeeded, the stored copy is owner-only, the config file holds
\* each of the two records on exactly one line
Configured ==
    /\ saResult = "True"
    /\ saFile.mode = OwnerOnly
    /\ envFile # NoFile
    /\ CountLines(envFile, Entry(USE_SERVICE_ACCOUNT, <<"true">>)) = 1
    /\ CountLines(envFile, Entry(SERVICE_ACCOUNT_FILE, SaPath)) = 1

\* C12 as claimed: for every prior content of the config file
C12_ConfiguredAnyPriorContent == Accepted(saSource) => Configured

\* C12: given a parseable file with the four required fields,
\* set_service_account_credentials succeeds, the stored copy is owner-only
\* and the config file afterwards holds exactly one USE_SERVICE_ACCOUNT=true
\* line and exactly one SERVICE_ACCOUNT_FILE=<stored path> line, whenever the
\* config file started with neither key on more than one line.
C12_ConfiguredUniquePriorKeys ==
    (/\ Accepted(saSource)
     /\ Cardinality(LinesFor(startFile, USE_SERVICE_ACCOUNT)) <= 1
     /\ Cardinality(LinesFor(startFile, SERVICE_ACCOUNT_FILE)) <= 1)
    => Configured

\* C12 witness: the call succeeded on a config file that already held a
\* USE_SERVICE_ACCOUNT record and other text
C12_Witness ==
    /\ Accepted(saSource)
    /\ Configured
    /\ Cardinality(LinesFor(startFile, USE_SERVICE_ACCOUNT)) = 1
    /\ startFile # Entry(USE_SERVICE_ACCOUNT, <<"true">>)
    /\ Len(Split(envFile)) = 2

\* C13: while no service-account key file is stored,
\* get_service_account_credentials returns None; it never raises.
C13_NoMaterialGivesNone ==
    (saFile = NoSA /\ ret.op = "get_service_account_credentials")
    => ret.creds = "None"

\* C13 witness: the accessor returned None after a call that named a missing
\* source file had left nothing stored
C13_Witness ==
    /\ saFile = NoSA
    /\ saResult = "False"
    /\ ret.op = "get_service_account_credentials"
    /\ ret.creds = "None"

\* both messaging variables are set in the environment
BothSet(env) == env[TELEGRAM_BOT_TOKEN] # <<>> /\ env[TELEGRAM_CHAT_ID] # <<>>

\* C14: validate_all_credentials returns the service_account flag false while
\* no key material is stored and true once set_service_account_credentials
\* has succeeded, and the messaging flag true exactly when both messaging
\* variables are set; neither flag depends on the other subsystem.
C14_FlagsFollowConfiguration ==
    ret.op = "validate_all_credentials"
    => /\ saFile = NoSA => ~ret.service_account
       /\ saResult = "True" => ret.service_account
       /\ ret.telegram = BothSet(environ)

----------------------------------------------------------------------------
(* The environment overlay: what update writes and what the accessors read *)

\* longest config file a behaviour of the overlay specification starts from
MaxEnvStartLen == 2
\* longest config file the overlay specification lets an update produce
MaxEnvFileLen == 7

EnvAtoms  == {TELEGRAM_BOT_TOKEN, TELEGRAM_CHAT_ID, EQ, NL, "v"}
\* the values handed to update: empty, plain, with a line break
EnvValues == {<<>>, <<"w">>, <<NL>>, <<"w", NL, "w">>}

\* the overlay a starting process gets from the config file: for each
\* variable the value of its first record, unset when it has none
LoadOverlay(file) ==
    [n \in EnvNames |->
        LET lines == Split(ReadEnv(file))
            i     == FirstMatch(lines, <<n>>)
        IN IF i = 0 THEN <<>> ELSE SubSeq(lines[i], 3, Len(lines[i]))]

\* a mutant of EnvironAfterUpdate: the update is also put into os.environ
EnvironSetByUpdate(env, name, value) == [env EXCEPT ![name] = value]

\* os.environ after _update_env_var(name, value): the method writes the file
\* and nothing else
EnvironAfterUpdate(env, name, value) == env

InitEnv ==
    /\ envFile \in {f \in {NoFile} \cup TextsUpTo(EnvAtoms, MaxEnvStartLen) :
                        UniqueKeys(f)}
    /\ startFile = envFile
    /\ StoreIdle /\ MgrIdle /\ OAuthIdle /\ FaceIdle /\ CryptoIdle /\ ExtIdle

\* _update_env_var(name, value) in the running process
UpdateEnv(name, value) ==
    /\ mgrKey # NoKey
    /\ LET text == _update_env_var(envFile, <<name>>, value)
       IN /\ Len(text) <= MaxEnvFileLen
          /\ envFile' = text
    /\ environ' = EnvironAfterUpdate(environ, name, value)
    /\ lastWritten' = [lastWritten EXCEPT ![name] = value]
    /\ clean' = (clean /\ ~HasNewline(value))
    /\ ret' = NoReturn
    /\ UNCHANGED <<startFile, opKind, calls, mgrVars, oauthVars, saSource,
                   cryptoVars, extVars>>

\* a process starts with the overlay loaded from the file, runs updates and
\* accessors, and ends
NextEnv ==
    \/ \E generated \in Keys : NewManager(generated, LoadOverlay(envFile))
    \/ ExitProcess
    \/ \E name \in EnvNames, value \in EnvValues : UpdateEnv(name, value)
    \/ GetTelegram

SpecEnv == InitEnv /\ [][NextEnv]_vars

\* C15: within one process the environment the accessors read never
\* changes, whatever is updated in the file: get_telegram_credentials
\* returns the values the overlay had when the process started.
C15_OverlayFixedInProcess ==
    /\ [][(mgrKey # NoKey /\ mgrKey' # NoKey) => environ' = environ]_vars
    /\ [](ret.op = "get_telegram_credentials"
            => /\ ret.bot_token = environ[TELEGRAM_BOT_TOKEN]
               /\ ret.chat_id = environ[TELEGRAM_CHAT_ID])

\* C15 witness: the process wrote a token into the file and the accessor
\* still returned the unset value the process started with
C15_Witness ==
    /\ clean
    /\ lastWritten[TELEGRAM_BOT_TOKEN] = <<"w">>
    /\ ret.op = "get_telegram_credentials"
    /\ ret.bot_token = <<>>

\* what the accessors of a process with the environment env return for the
\* variables that were updated is the value last written
ReadsLastWritten(env) ==
    LET r == get_telegram_credentials(env)
    IN /\ lastWritten[TELEGRAM_BOT_TOKEN] # NotWritten
            => r.bot_token = lastWritten[TELEGRAM_BOT_TOKEN]
       /\ lastWritten[TELEGRAM_CHAT_ID] # NotWritten
            => r.chat_id = lastWritten[TELEGRAM_CHAT_ID]

----------------------------------------------------------------------------
(* The manual OAuth flow: manual_oauth_simple.py *)

GMAIL_REFRESH_TOKEN  == <<"GMAIL_REFRESH_TOKEN">>
GDRIVE_REFRESH_TOKEN == <<"GDRIVE_REFRESH_TOKEN">>

\* a mutant of UpdateContent: the new entry is assigned to the content
\* instead of being added to it
UpdateContentOverwrites(content, key, value) ==
    IF Contains(content, key \o <<EQ>>)
    THEN LET lines == Split(content)
             i     == FirstMatch(lines, key)
         IN IF i # 0
            THEN Join([lines EXCEPT ![i] = Entry(key, value)])
            ELSE Join(lines)
    ELSE <<NL>> \o Entry(key, value)

\* one pass of the loop of update_env_with_refresh_token over `updates`
UpdateContent(content, key, value) ==
    IF Contains(content, key \o <<EQ>>)
    THEN LET lines == Split(content)
             i     == FirstMatch(lines, key)
         IN IF i # 0
            THEN Join([lines EXCEPT ![i] = Entry(key, value)])
            ELSE Join(lines)
    ELSE content \o <<NL>> \o Entry(key, value)

\* update_env_with_refresh_token: the value returned and the file afterwards;
\* open(env_file, 'r') raises when the file does not exist
update_env_with_refresh_token(file, refresh_token) ==
    IF file = NoFile
    THEN [ok |-> FALSE, file |-> file]
    ELSE [ok   |-> TRUE,
          file |-> UpdateContent(
                       UpdateContent(file, GMAIL_REFRESH_TOKEN, refresh_token),
                       GDRIVE_REFRESH_TOKEN, refresh_token)]

\* the refresh tokens an endpoint may put in its answer
RefreshTokens == {<<>>, <<"t">>}

\* what requests.post can do: raise, or return a status and a body; the body
\* is not JSON, or a JSON object whose refresh_token is absent, null or a
\* string, with or without an access_token
Responses ==
    [kind : {"http"}, status : {200, 400, 500}, parse : {"object"},
     rt : {"str"}, token : RefreshTokens, at : BOOLEAN]
    \cup [kind : {"http"}, status : {200, 400, 500}, parse : {"object"},
          rt : {"absent", "null"}, token : {<<>>}, at : BOOLEAN]
    \cup [kind : {"http"}, status : {200, 400, 500}, parse : {"invalid"},
          rt : {"absent"}, token : {<<>>}, at : {FALSE}]
    \cup [kind : {"exception"}, status : {0}, parse : {"invalid"},
          rt : {"absent"}, token : {<<>>}, at : {FALSE}]

\* a mutant of exchange_for_refresh_token: the status code is not looked at
ExchangeIgnoringStatus(file, resp) ==
    IF resp.kind = "http" /\ resp.parse = "object" /\ resp.rt = "str"
    THEN update_env_with_refresh_token(file, resp.token)
    ELSE [ok |-> FALSE, file |-> file]

\* exchange_for_refresh_token: the value returned and the config file
\* afterwards, given what the POST did
exchange_for_refresh_token(file, resp) ==
    IF resp.kind # "http"
    THEN [ok |-> FALSE, file |-> file]
    ELSE IF resp.status = 200
    THEN IF resp.parse # "object"
         THEN [ok |-> FALSE, file |-> file]
         ELSE IF resp.rt # "absent"
         THEN IF resp.rt = "null"
              THEN [ok |-> FALSE, file |-> file]
              ELSE update_env_with_refresh_token(file, resp.token)
         ELSE [ok |-> FALSE, file |-> file]
    ELSE [ok |-> FALSE, file |-> file]

\* manual_oauth_flow from the prompt on: the value returned and the config
\* file afterwards, given what the operator typed and what the POST did
manual_oauth_flow(file, typed, resp) ==
    IF Strip(typed) = <<>>
    THEN [ok |-> FALSE, file |-> file]
    ELSE exchange_for_refresh_token(file, resp)

\* a mutant of FlowState: a failed exchange is tried again
RetryFailedExchange(ok) == IF ok THEN "COMPLETE" ELSE "EXCHANGING"

\* the state the flow ends in when manual_oauth_flow returns `ok`
FlowState(ok) == IF ok THEN "COMPLETE" ELSE "FAILED"

Terminal == {"COMPLETE", "FAILED"}

\* most POSTs to the token endpoint a behaviour is followed through
MaxRequests == 2

\* what the operator may type: spaces and other characters
Codes == TextsUpTo({" ", "c"}, MaxCodeLen)

InitOAuth ==
    /\ envFile \in StartFiles(OAuthAtoms)
    /\ startFile = envFile
    /\ StoreIdle /\ MgrIdle /\ FaceIdle /\ CryptoIdle /\ ExtIdle
    /\ pc = "INIT"
    /\ authCode = <<>>
    /\ requests = 0
    /\ response = NoResponse
    /\ trail = <<"INIT">>

\* manual_oauth_flow up to the prompt: load the client credentials, build the
\* URL, open the browser; an exception there ends the flow
BeginFlow(credentialsLoad) ==
    /\ pc = "INIT"
    /\ pc' = IF credentialsLoad THEN "AWAITING_USER_CODE" ELSE FlowState(FALSE)
    /\ trail' = Append(trail, pc')
    /\ UNCHANGED <<envFile, storeVars, mgrVars, faceVars, cryptoVars, extVars,
                 authCode, requests, response>>

\* input(...).strip() returns; an empty code ends the flow
EnterCode(typed) ==
    /\ pc = "AWAITING_USER_CODE"
    /\ authCode' = typed
    /\ pc' = IF Strip(typed) = <<>> THEN FlowState(FALSE) ELSE "EXCHANGING"
    /\ trail' = Append(trail, pc')
    /\ UNCHANGED <<envFile, storeVars, mgrVars, faceVars, cryptoVars, extVars,
                 requests, response>>

\* exchange_for_refresh_token: the POST, its answer, and the update of the file
Exchange(resp) ==
    /\ pc = "EXCHANGING"
    /\ requests < MaxRequests
    /\ requests' = requests + 1
    /\ response' = resp
    /\ LET r == exchange_for_refresh_token(envFile, resp)
       IN /\ envFile' = r.file
          /\ pc' = FlowState(r.ok)
    /\ trail' = Append(trail, pc')
    /\ UNCHANGED <<storeVars, mgrVars, faceVars, cryptoVars, extVars, authCode>>

NextOAuth ==
    \/ \E credentialsLoad \in BOOLEAN : BeginFlow(credentialsLoad)
    \/ \E typed \in Codes : EnterCode(typed)
    \/ \E resp \in Responses : Exchange(resp)

SpecOAuth == InitOAuth /\ [][NextOAuth]_vars

\* the answer carries a refresh token (a string) / a non-empty one
HasRefreshToken(resp) ==
    resp.kind = "http" /\ resp.parse = "object" /\ resp.rt = "str"
HasNonEmptyRefreshToken(resp) == HasRefreshToken(resp) /\ resp.token # <<>>

\* C5: the flow is COMPLETE only after an HTTP 200 answer whose body carries
\* a non-empty refresh token.
C5_CompleteOnlyWithNonEmptyToken ==
    pc = "COMPLETE" => (response.status = 200 /\ HasNonEmptyRefreshToken(response))

\* C6: after an HTTP 200 answer lacking a refresh token, and after every
\* non-200 answer, the flow is FAILED and the config file is as it was
\* before the flow started.
C6_FailureLeavesFileAlone ==
    (/\ pc \in Terminal
     /\ response.kind = "http"
     /\ (response.status # 200 \/ ~HasRefreshToken(response)))
    => (pc = "FAILED" /\ envFile = startFile)

\* C6 witness: a non-200 answer that carried a token met a file holding the key
C6_Witness ==
    /\ pc = "FAILED"
    /\ response.kind = "http" /\ response.status = 400
    /\ response.rt = "str" /\ response.token = <<"t">>
    /\ LinesFor(envFile, GMAIL_REFRESH_TOKEN) # {}
    /\ envFile = startFile

\* C7: an HTTP 200 answer that carries a refresh token takes the flow to
\* COMPLETE, whatever the config file is (absent included).
C7_TokenAlwaysCompletes ==
    (/\ pc \in Terminal
     /\ response.status = 200
     /\ HasNonEmptyRefreshToken(response))
    => pc = "COMPLETE"

\* exactly one line of the file is a record of `key`, and it is key=value
ExactlyOneLine(file, key, value) ==
    /\ file # NoFile
    /\ Cardinality(LinesFor(file, key)) = 1
    /\ \A i \in LinesFor(file, key) : Split(file)[i] = Entry(key, value)

\* C8: when the flow is COMPLETE the config file holds the issued token as
\* GMAIL_REFRESH_TOKEN and as GDRIVE_REFRESH_TOKEN, each on exactly one line.
C8_CompleteMeansPersisted ==
    pc = "COMPLETE" =>
        /\ ExactlyOneLine(envFile, GMAIL_REFRESH_TOKEN, response.token)
        /\ ExactlyOneLine(envFile, GDRIVE_REFRESH_TOKEN, response.token)

\* the members of a sequence
Range(seq) == {seq[i] : i \in 1..Len(seq)}

\* C9: an empty or whitespace-only authorization code ends the flow in
\* FAILED: no request was sent, EXCHANGING was never entered, the config
\* file is unchanged.
C9_EmptyCodeStopsFlow ==
    (/\ "AWAITING_USER_CODE" \in Range(trail)
     /\ pc # "AWAITING_USER_CODE"
     /\ \A i \in 1..Len(authCode) : authCode[i] = " ")
    => /\ pc = "FAILED"
       /\ requests = 0
       /\ "EXCHANGING" \notin Range(trail)
       /\ envFile = startFile

\* C9 witness: the operator typed only spaces and the flow has failed
C9_Witness ==
    /\ authCode = <<" ", " ">>
    /\ pc = "FAILED"
    /\ trail = <<"INIT", "AWAITING_USER_CODE", "FAILED">>

\* position of a state in INIT, AWAITING_USER_CODE, EXCHANGING, COMPLETE | FAILED
Rank(state) ==
    CASE state = "INIT" -> 1
      [] state = "AWAITING_USER_CODE" -> 2
      [] state = "EXCHANGING" -> 3
      [] OTHER -> 4

\* C10: every step of a run moves the flow forward in the order INIT,
\* AWAITING_USER_CODE, EXCHANGING, COMPLETE | FAILED; no step leaves COMPLETE
\* or FAILED; a run sends at most one request to the token endpoint.
C10_ForwardOnlyOneRequest ==
    [][/\ Rank(pc) < Rank(pc')
       /\ pc \notin Terminal
       /\ requests' <= 1]_vars

\* C10 witness: a run whose only request failed has ended, with one request sent
C10_Witness ==
    /\ trail = <<"INIT", "AWAITING_USER_CODE", "EXCHANGING", "FAILED">>
    /\ response.kind = "exception"
    /\ requests = 1

\* what the caller is to learn from a failed flow: the kind of failure and,
\* for a rejected exchange, the HTTP status
FlowFailure(typed, resp) ==
    IF Strip(typed) = <<>>
    THEN [error |-> "UserInputError", status |-> 0]
    ELSE IF resp.kind = "http" /\ resp.status # 200
    THEN [error |-> "NetworkError", status |-> resp.status]
    ELSE IF resp.kind = "http" /\ ~HasRefreshToken(resp)
    THEN [error |-> "MissingRefreshToken", status |-> 200]
    ELSE [error |-> "other", status |-> 0]

\* C18: the value the flow returns tells an empty authorization code, a
\* non-200 answer (and its status) and a 200 answer without refresh token
\* apart: two runs that fail differently never return the same value.
C18_FailureKindInResult ==
    (/\ pc = "FAILED"
     /\ "AWAITING_USER_CODE" \in Range(trail)
     /\ FlowFailure(authCode, response).error # "other")
    => \A typed \in Codes, resp \in Responses :
          (/\ FlowFailure(typed, resp).error # "other"
           /\ FlowFailure(typed, resp) # FlowFailure(authCode, response))
          => manual_oauth_flow(startFile, typed, resp).ok
                 # manual_oauth_flow(startFile, authCode, response).ok

\* a line that is not a record of one of the two refresh-token keys
NotTokenLine(line) ==
    ~LineMatches(line, GMAIL_REFRESH_TOKEN) /\ ~LineMatches(line, GDRIVE_REFRESH_TOKEN)

\* the record the flow writes for the issued refresh token
IsIssuedTokenLine(line) ==
    line \in {Entry(GMAIL_REFRESH_TOKEN, response.token),
              Entry(GDRIVE_REFRESH_TOKEN, response.token)}

\* C19: whatever the outcome of the flow, the config file differs from the
\* file the flow started with in refresh-token records only: the other
\* lines are the same, in the same order; a refresh-token record is as it
\* was or holds the issued refresh token; nothing the operator typed is in
\* the file; a file that did not exist is not created.
C19_OnlyRefreshTokenPersisted ==
    /\ (envFile = NoFile) = (startFile = NoFile)
    /\ envFile # NoFile =>
          LET old == Split(startFile)
              new == Split(envFile)
          IN /\ SelectSeq(new, NotTokenLine) = SelectSeq(old, NotTokenLine)
             /\ \A i \in 1..Len(new) :
                   \/ NotTokenLine(new[i])
                   \/ \E j \in 1..Len(old) : old[j] = new[i]
                   \/ IsIssuedTokenLine(new[i])
             /\ authCode # <<>> => Range(authCode) \cap Range(envFile) = {}

\* C19 witness: a completed flow replaced the GMAIL record on the second line
\* of the file, added the GDRIVE record and kept the first line
C19_Witness ==
    /\ pc = "COMPLETE"
    /\ response.token = <<"t">>
    /\ Len(Split(startFile)) = 2
    /\ LinesFor(startFile, GMAIL_REFRESH_TOKEN) = {2}
    /\ Len(Split(envFile)) = 3
    /\ Split(envFile)[1] = Split(startFile)[1]
    /\ Split(envFile)[2] = Entry(GMAIL_REFRESH_TOKEN, <<"t">>)

----------------------------------------------------------------------------
(* encrypt_credential / decrypt_credential *)
(* A str is a sequence of code points, a bytes object a sequence of numbers *)
(* below 256.  UTF-8 and base64 are computed as the library computes them;  *)
(* Fernet is cut down to a token of a version byte, a one-byte IV, a        *)
(* ciphertext as long as the data and a one-byte MAC, both keyed.           *)

\* longest credential handed to encrypt_credential
MaxPlainLen == 2

\* 'A', 'e' with acute accent, the euro sign: one, two and three bytes in UTF-8
PlainChars == {65, 233, 8364}
Plaintexts == TextsUpTo(PlainChars, MaxPlainLen)
\* the IVs os.urandom may draw for a token
Ivs == {0, 200}

\* what a call that may raise returns
Value(v) == [kind |-> "value", val |-> v]
Raise    == [kind |-> "raise", val |-> <<>>]
\* cryptography.fernet.InvalidToken
InvalidToken == [kind |-> "InvalidToken", val |-> <<>>]

\* str.encode(): UTF-8
EncodeChar(c) ==
    IF c < 128 THEN <<c>>
    ELSE IF c < 2048 THEN <<192 + (c \div 64), 128 + (c % 64)>>
    ELSE <<224 + (c \div 4096), 128 + ((c \div 64) % 64), 128 + (c % 64)>>

RECURSIVE StrEncode(_)
StrEncode(str) ==
    IF str = <<>> THEN <<>> ELSE EncodeChar(Head(str)) \o StrEncode(Tail(str))

\* bytes.decode(): UTF-8, raising on a malformed sequence
IsContinuation(b) == b >= 128 /\ b < 192

RECURSIVE Utf8Valid(_)
Utf8Valid(b) ==
    IF b = <<>> THEN TRUE
    ELSE IF b[1] < 128 THEN Utf8Valid(Tail(b))
    ELSE IF b[1] >= 194 /\ b[1] < 224
    THEN Len(b) >= 2 /\ IsContinuation(b[2]) /\ Utf8Valid(SubSeq(b, 3, Len(b)))
    ELSE IF b[1] >= 224 /\ b[1] < 240
    THEN /\ Len(b) >= 3 /\ IsContinuation(b[2]) /\ IsContinuation(b[3])
         /\ Utf8Valid(SubSeq(b, 4, Len(b)))
    ELSE FALSE

RECURSIVE Utf8Chars(_)
Utf8Chars(b) ==
    IF b = <<>> THEN <<>>
    ELSE IF b[1] < 128 THEN <<b[1]>> \o Utf8Chars(Tail(b))
    ELSE IF b[1] < 224
    THEN <<((b[1] - 192) * 64) + (b[2] - 128)>> \o Utf8Chars(SubSeq(b, 3, Len(b)))
    ELSE <<((b[1] - 224) * 4096) + ((b[2] - 128) * 64) + (b[3] - 128)>>
             \o Utf8Chars(SubSeq(b, 4, Len(b)))

BytesDecode(b) == IF Utf8Valid(b) THEN Value(Utf8Chars(b)) ELSE Raise

\* the base64 alphabets: the ASCII code of digit i, standard or URL-safe
B64Char(i, urlsafe) ==
    IF i < 26 THEN 65 + i
    ELSE IF i < 52 THEN 97 + (i - 26)
    ELSE IF i < 62 THEN 48 + (i - 52)
    ELSE IF i = 62 THEN (IF urlsafe THEN 45 ELSE 43)
    ELSE (IF urlsafe THEN 95 ELSE 47)

B64Pad == 61

IsB64Char(c, urlsafe) == \E i \in 0..63 : B64Char(i, urlsafe) = c
B64Digit(c, urlsafe)  == CHOOSE i \in 0..63 : B64Char(i, urlsafe) = c

\* base64.b64encode / base64.urlsafe_b64encode
RECURSIVE B64Encode(_, _)
B64Encode(b, urlsafe) ==
    IF b = <<>> THEN <<>>
    ELSE IF Len(b) = 1
    THEN <<B64Char(b[1] \div 4, urlsafe), B64Char((b[1] % 4) * 16, urlsafe),
           B64Pad, B64Pad>>
    ELSE IF Len(b) = 2
    THEN <<B64Char(b[1] \div 4, urlsafe),
           B64Char(((b[1] % 4) * 16) + (b[2] \div 16), urlsafe),
           B64Char((b[2] % 16) * 4, urlsafe), B64Pad>>
    ELSE <<B64Char(b[1] \div 4, urlsafe),
           B64Char(((b[1] % 4) * 16) + (b[2] \div 16), urlsafe),
           B64Char(((b[2] % 16) * 4) + (b[3] \div 64), urlsafe),
           B64Char(b[3] % 64, urlsafe)>>
             \o B64Encode(SubSeq(b, 4, Len(b)), urlsafe)

\* base64.b64decode / base64.urlsafe_b64decode: characters outside the
\* alphabet are dropped, then the groups of four are decoded; a wrong length
\* or misplaced padding raises
IsStdChar(c) == c = B64Pad \/ IsB64Char(c, FALSE)
IsUrlChar(c) == c = B64Pad \/ IsB64Char(c, TRUE)

B64WellFormed(c) ==
    /\ Len(c) % 4 = 0
    /\ \A i \in 1..Len(c) :
          c[i] = B64Pad => /\ i >= Len(c) - 1
                           /\ c[Len(c)] = B64Pad

RECURSIVE B64Bytes(_, _)
B64Bytes(c, urlsafe) ==
    IF c = <<>> THEN <<>>
    ELSE LET d1 == B64Digit(c[1], urlsafe)
             d2 == B64Digit(c[2], urlsafe)
         IN IF c[3] = B64Pad
            THEN <<(d1 * 4) + (d2 \div 16)>>
            ELSE LET d3 == B64Digit(c[3], urlsafe)
                 IN IF c[4] = B64Pad
                    THEN <<(d1 * 4) + (d2 \div 16), ((d2 % 16) * 16) + (d3 \div 4)>>
                    ELSE <<(d1 * 4) + (d2 \div 16), ((d2 % 16) * 16) + (d3 \div 4),
                           ((d3 % 4) * 64) + B64Digit(c[4], urlsafe)>>
                             \o B64Bytes(SubSeq(c, 5, Len(c)), urlsafe)

B64Decode(c, urlsafe) ==
    LET kept == IF urlsafe THEN SelectSeq(c, IsUrlChar) ELSE SelectSeq(c, IsStdChar)
    IN IF B64WellFormed(kept) THEN Value(B64Bytes(kept, urlsafe)) ELSE Raise

\* the number a key stands for in the cipher and the MAC
KeyNumber(key) == CHOOSE n \in 1..Len(KeyBytes) : KeyBytes[n] = key[1]

RECURSIVE Sum(_)
Sum(b) == IF b = <<>> THEN 0 ELSE Head(b) + Sum(Tail(b))

Mac(k, body)          == (Sum(body) + (31 * k)) % 256
Cipher(k, iv, data)   == [i \in 1..Len(data) |-> (data[i] + k + iv) % 256]
Decipher(k, iv, data) == [i \in 1..Len(data) |-> (data[i] + 512 - k - iv) % 256]

\* Fernet(key).encrypt(data): the token, URL-safe base64 of
\* version, IV, ciphertext, MAC
FernetEncrypt(key, iv, data) ==
    LET k    == KeyNumber(key)
        body == <<128, iv>> \o Cipher(k, iv, data)
    IN B64Encode(Append(body, Mac(k, body)), TRUE)

\* a mutant of FernetDecrypt: the MAC is not verified
FernetDecryptUnverified(key, token) ==
    LET k   == KeyNumber(key)
        raw == B64Decode(token, TRUE)
    IN IF raw.kind # "value" \/ Len(raw.val) < 3
       THEN InvalidToken
       ELSE LET t == raw.val
            IN IF t[1] # 128
               THEN InvalidToken
               ELSE Value(Decipher(k, t[2], SubSeq(t, 3, Len(t) - 1)))

\* Fernet(key).decrypt(token): the data, or InvalidToken
FernetDecrypt(key, token) ==
    LET k   == KeyNumber(key)
        raw == B64Decode(token, TRUE)
    IN IF raw.kind # "value" \/ Len(raw.val) < 3
       THEN InvalidToken
       ELSE LET t    == raw.val
                body == SubSeq(t, 1, Len(t) - 1)
            IN IF t[1] # 128 \/ t[Len(t)] # Mac(k, body)
               THEN InvalidToken
               ELSE Value(Decipher(k, t[2], SubSeq(t, 3, Len(t) - 1)))

\* encrypt_credential(value), with the IV Fernet drew
encrypt_credential(key, iv, value) ==
    LET encrypted == FernetEncrypt(key, iv, StrEncode(value))
    IN BytesDecode(B64Encode(encrypted, FALSE)).val

\* a mutant of decrypt_credential: the base64 wrapping is not taken off
DecryptWithoutB64(key, encrypted_value) ==
    LET opened == FernetDecrypt(key, StrEncode(encrypted_value))
    IN IF opened.kind # "value" THEN opened ELSE BytesDecode(opened.val)

\* decrypt_credential(encrypted_value): the credential, or the exception
\* raised on the way (none is caught)
decrypt_credential(key, encrypted_value) ==
    LET decoded == B64Decode(StrEncode(encrypted_value), FALSE)
    IN IF decoded.kind # "value"
       THEN decoded
       ELSE LET opened == FernetDecrypt(key, decoded.val)
            IN IF opened.kind # "value"
               THEN opened
               ELSE BytesDecode(opened.val)

InitCrypto ==
    /\ envFile = NoFile
    /\ startFile = envFile
    /\ StoreIdle /\ MgrIdle /\ OAuthIdle /\ FaceIdle /\ CryptoIdle /\ ExtIdle

\* credential_manager.encrypt_credential(value)
Encrypt(value, iv) ==
    /\ mgrKey # NoKey
    /\ plain' = value
    /\ secret' = encrypt_credential(mgrKey, iv, value)
    /\ decrypted' = NoOutcome
    /\ encKey' = mgrKey
    /\ decKey' = NoKey
    /\ UNCHANGED <<envFile, storeVars, mgrVars, oauthVars, faceVars, extVars>>

\* credential_manager.decrypt_credential(secret)
Decrypt ==
    /\ mgrKey # NoKey
    /\ secret # <<>>
    /\ decrypted' = decrypt_credential(mgrKey, secret)
    /\ decKey' = mgrKey
    /\ UNCHANGED <<envFile, storeVars, mgrVars, oauthVars, faceVars,
                   plain, secret, encKey, extVars>>

\* managers of successive processes encrypt credentials and decrypt what
\* was encrypted
NextCrypto ==
    \/ \E generated \in Keys : NewManager(generated, NoEnviron)
    \/ ExitProcess
    \/ \E value \in Plaintexts, iv \in Ivs : Encrypt(value, iv)
    \/ Decrypt

SpecCrypto == InitCrypto /\ [][NextCrypto]_vars

\* C20: decrypt_credential(encrypt_credential(P)) returns P, the base64
\* wrapping included, for every credential P and every master key.
C20_DecryptInvertsEncrypt ==
    decrypted.kind # "none" => decrypted = Value(plain)

\* C20 witness: a credential of multi-byte characters was encrypted by one
\* process and decrypted by a later one that loaded the key file
C20_Witness ==
    /\ decrypted = Value(<<233, 8364>>)
    /\ plain = <<233, 8364>>
    /\ keyBranch = "loaded"
    /\ secret # plain

\* between two processes the key file is removed (by hand, with the config
\* directory): the next manager finds none and creates another key
RemoveKeyFile ==
    /\ mgrKey = NoKey
    /\ keyFile # NoFile
    /\ keyFile' = NoFile
    /\ UNCHANGED <<envFile, storeVars, mgrKey, keyBranch, saFile, saResult,
                   oauthVars, faceVars, cryptoVars, extVars>>

\* encrypting and decrypting across processes whose key file may be replaced
NextRekey ==
    \/ \E generated \in Keys : NewManager(generated, NoEnviron)
    \/ ExitProcess
    \/ \E value \in Plaintexts, iv \in Ivs : Encrypt(value, iv)
    \/ Decrypt
    \/ RemoveKeyFile

SpecRekey == InitCrypto /\ [][NextRekey]_vars

\* C21: decrypt_credential of a secret encrypted under one key, run by a
\* manager holding another key, raises InvalidToken; it returns no text.
C21_WrongKeyRaises ==
    (decrypted.kind # "none" /\ decKey # encKey) => decrypted = InvalidToken

\* C21 witness: a manager with a new key was handed the secret an earlier
\* manager made of a non-empty credential, and the call raised
C21_Witness ==
    /\ decrypted = InvalidToken
    /\ decKey # encKey
    /\ encKey # NoKey
    /\ plain # <<>>
    /\ keyBranch = "created"

----------------------------------------------------------------------------
(* Two processes update the same config file. _update_env_var takes no     *)
(* lock: it reads the file (lines 114-117), computes the new text, and     *)
(* then opens the file for writing, which truncates it (line 132), and     *)
(* writes the text from offset 0 when the buffer is flushed (line 133).    *)
(* The steps of the two processes interleave freely.                       *)

RaceFiles  == {NoFile, <<>>, <<"A", EQ, "x">>, <<"x", NL, "B", EQ, "x">>}
RaceValues == {<<>>, <<"x">>, <<"x", "x">>}

\* write(text) at offset 0 of a file that holds `file`: what lies beyond the
\* end of the text stays
Overwrite(file, text) == text \o SubSeq(file, Len(text) + 1, Len(file))

InitRace ==
    /\ envFile \in RaceFiles
    /\ startFile = envFile
    /\ StoreIdle /\ MgrIdle /\ OAuthIdle /\ FaceIdle /\ CryptoIdle /\ ExtIdle

\* a process calls _update_env_var(key, value)
ProcCall(p, key, value) ==
    /\ procs[p].pc = "idle"
    /\ procs' = [procs EXCEPT ![p] = [pc |-> "read", key |-> key,
                                       value |-> value, text |-> <<>>]]
    /\ UNCHANGED <<envFile, storeVars, mgrVars, oauthVars, faceVars,
                   cryptoVars, lastText, tool, wf>>

\* lines 114-130: the process reads the file and computes the text to write
ProcRead(p) ==
    /\ procs[p].pc = "read"
    /\ procs' = [procs EXCEPT ![p].pc = "open",
                              ![p].text = _update_env_var(envFile, procs[p].key,
                                                          procs[p].value)]
    /\ UNCHANGED <<envFile, storeVars, mgrVars, oauthVars, faceVars,
                   cryptoVars, lastText, tool, wf>>

\* line 132: open(env_file, 'w') creates the file or truncates it
ProcOpen(p) ==
    /\ procs[p].pc = "open"
    /\ envFile' = <<>>
    /\ procs' = [procs EXCEPT ![p].pc = "write"]
    /\ UNCHANGED <<storeVars, mgrVars, oauthVars, faceVars, cryptoVars,
                   lastText, tool, wf>>

\* line 133: the text is written at the handle's offset 0
ProcWrite(p) ==
    /\ procs[p].pc = "write"
    /\ envFile' = Overwrite(envFile, procs[p].text)
    /\ lastText' = procs[p].text
    /\ procs' = [procs EXCEPT ![p].pc = "done"]
    /\ UNCHANGED <<storeVars, mgrVars, oauthVars, faceVars, cryptoVars,
                   tool, wf>>

NextRace ==
    \/ \E p \in Procs, key \in StoreKeys, value \in RaceValues :
           ProcCall(p, key, value)
    \/ \E p \in Procs : ProcRead(p)
    \/ \E p \in Procs : ProcOpen(p)
    \/ \E p \in Procs : ProcWrite(p)

SpecRace == InitRace /\ [][NextRace]_vars

AllDone == \A p \in Procs : procs[p].pc = "done"

\* C22: when two processes interleave the steps of update on the same file,
\* the final content is exactly the full text written by the process whose
\* write happened last (computed from what it read), never a mixture.
C22_LastWriterWins ==
    AllDone => envFile = lastText

\* The flow with its scheduling: manual_oauth_flow runs to the prompt without
\* waiting for anyone, and the synchronous POST returns once the endpoint has
\* answered or the connection has failed. Nothing makes the operator type.
\* The config file is absent, empty, holds a key at a line start, or holds a
\* key only inside another line.
LiveFiles ==
    {NoFile, <<>>, <<"GMAIL_REFRESH_TOKEN", EQ, "x">>,
     <<"x", "GDRIVE_REFRESH_TOKEN", EQ>>}

InitOAuthLive ==
    /\ InitOAuth
    /\ envFile \in LiveFiles

SpecOAuthLive ==
    /\ InitOAuthLive
    /\ [][NextOAuth]_vars
    /\ WF_vars(\E credentialsLoad \in BOOLEAN : BeginFlow(credentialsLoad))
    /\ WF_vars(\E resp \in Responses : Exchange(resp))

----------------------------------------------------------------------------
(* The two auxiliary writers of the config file, each called once, next to *)
(* what two calls of _update_env_var make of the same file.                *)

GMAIL_CLIENT_ID  == <<"GMAIL_CLIENT_ID">>
GDRIVE_CLIENT_ID == <<"GDRIVE_CLIENT_ID">>

HelperAtoms ==
    {"GMAIL_REFRESH_TOKEN", "GDRIVE_REFRESH_TOKEN", "GMAIL_CLIENT_ID",
     "GDRIVE_CLIENT_ID", EQ, NL, "x"}

\* the values handed to either writer
HelperValues == {<<>>, <<"t">>}

\* fix_client_mismatch.update_client_id: the value returned and the file
\* afterwards; open(env_file, 'r') raises when the file does not exist
update_client_id(file, new_client_id) ==
    IF file = NoFile
    THEN [ok |-> FALSE, file |-> file]
    ELSE [ok   |-> TRUE,
          file |-> UpdateContent(
                       UpdateContent(file, GMAIL_CLIENT_ID, new_client_id),
                       GDRIVE_CLIENT_ID, new_client_id)]

InitHelpers ==
    /\ envFile \in StartFiles(HelperAtoms)
    /\ startFile = envFile
    /\ StoreIdle /\ MgrIdle /\ OAuthIdle /\ FaceIdle /\ CryptoIdle /\ ExtIdle

\* update_env_with_refresh_token(refresh_token), called on the starting file
SaveRefreshToken(refresh_token) ==
    /\ calls = <<>>
    /\ LET r == update_env_with_refresh_token(envFile, refresh_token)
       IN /\ envFile' = r.file
          /\ opKind' = IF r.ok THEN "True" ELSE "False"
    /\ calls' = <<<<"update_env_with_refresh_token", refresh_token>>>>
    /\ UNCHANGED <<startFile, clean, mgrVars, oauthVars, faceVars, cryptoVars,
                   extVars>>

\* update_client_id(new_client_id, ...), called on the starting file
SaveClientId(new_client_id) ==
    /\ calls = <<>>
    /\ LET r == update_client_id(envFile, new_client_id)
       IN /\ envFile' = r.file
          /\ opKind' = IF r.ok THEN "True" ELSE "False"
    /\ calls' = <<<<"update_client_id", new_client_id>>>>
    /\ UNCHANGED <<startFile, clean, mgrVars, oauthVars, faceVars, cryptoVars,
                   extVars>>

NextHelpers ==
    \/ \E refresh_token \in HelperValues : SaveRefreshToken(refresh_token)
    \/ \E new_client_id \in HelperValues : SaveClientId(new_client_id)

SpecHelpers == InitHelpers /\ [][NextHelpers]_vars

\* update(first, value) followed by update(second, value)
TwoUpdates(file, first, second, value) ==
    _update_env_var(_update_env_var(file, first, value), second, value)

\* C24: update_env_with_refresh_token(t) leaves the file as update of
\* GMAIL_REFRESH_TOKEN then of GDRIVE_REFRESH_TOKEN to t would, from every
\* starting file (absent, empty, key at a line start, key text only inside
\* another line); update_client_id likewise for the two client-id keys.
C24_HelpersRefineUpdate ==
    calls # <<>> =>
        envFile = IF calls[1][1] = "update_env_with_refresh_token"
                  THEN TwoUpdates(startFile, GMAIL_REFRESH_TOKEN,
                                  GDRIVE_REFRESH_TOKEN, calls[1][2])
                  ELSE TwoUpdates(startFile, GMAIL_CLIENT_ID,
                                  GDRIVE_CLIENT_ID, calls[1][2])

----------------------------------------------------------------------------
(* What a failed set_service_account_credentials leaves behind *)

FlagLine == Entry(USE_SERVICE_ACCOUNT, <<"true">>)

\* C25: a set_service_account_credentials call that fails (source missing,
\* unparseable, or lacking a required field) leaves valid stored key material
\* as it was: the stored key file has the same content after the call.
C25_FailureKeepsStoredMaterial ==
    [][(Accepted(saFile) /\ saResult' = "False") => saFile' = saFile]_vars

\* C26: after any sequence of set_service_account_credentials calls on a
\* config file that did not hold the flag at the start, if the config file
\* holds the line USE_SERVICE_ACCOUNT=true then the stored key file exists
\* and holds all four required fields.
C26_FlagNeverOutlivesMaterial ==
    (CountLines(startFile, FlagLine) = 0 /\ CountLines(envFile, FlagLine) > 0)
    => Accepted(saFile)

\* Every call so far has failed: a call that succeeds writes the flag line
\* into the config file (lines 78-79) and nothing removes it; the config
\* files of SpecFacade start without it.
EveryCallFailed == CountLines(envFile, FlagLine) = 0

\* C27: starting with nothing stored, while every
\* set_service_account_credentials call so far has failed,
\* get_service_account_credentials returns None and validate_all_credentials
\* reports service_account false.
C27_RejectedFileNeverUsable ==
    EveryCallFailed
    => /\ ret.op = "get_service_account_credentials" => ret.creds = "None"
       /\ ret.op = "validate_all_credentials" => ~ret.service_account

----------------------------------------------------------------------------
(* Two processes construct their manager while the key file is absent.     *)
(* _get_or_create_encryption_key tests key_file.exists() (line 31) and     *)
(* then either reads the file (lines 32-33) or generates a key (line 35),  *)
(* opens the file with 'wb' (line 36) and writes the key (line 37); the    *)
(* steps of the two processes interleave freely.                           *)

InitKeyRace ==
    /\ envFile = NoFile
    /\ startFile = envFile
    /\ StoreIdle /\ MgrIdle /\ OAuthIdle /\ FaceIdle /\ CryptoIdle /\ ExtIdle

\* line 31: key_file.exists()
KeyCheck(p) ==
    /\ procs[p].pc = "idle"
    /\ procs' = [procs EXCEPT
                    ![p].pc = IF keyFile # NoFile THEN "load" ELSE "create"]
    /\ UNCHANGED <<envFile, storeVars, mgrVars, oauthVars, faceVars,
                   cryptoVars, lastText, tool, wf>>

\* lines 32-33: the process returns what the file holds at that moment
KeyLoad(p) ==
    /\ procs[p].pc = "load"
    /\ procs' = [procs EXCEPT ![p].pc = "done", ![p].text = keyFile]
    /\ UNCHANGED <<envFile, storeVars, mgrVars, oauthVars, faceVars,
                   cryptoVars, lastText, tool, wf>>

\* lines 35-36: Fernet.generate_key(), then open(key_file, 'wb') creates the
\* file or truncates it
KeyOpen(p, generated) ==
    /\ procs[p].pc = "create"
    /\ procs' = [procs EXCEPT ![p].pc = "write", ![p].text = generated]
    /\ keyFile' = <<>>
    /\ UNCHANGED <<envFile, storeVars, mgrKey, keyBranch, saFile, saResult,
                   oauthVars, faceVars, cryptoVars, lastText, tool, wf>>

\* lines 37-40: the key is written at offset 0 and returned
KeyWrite(p) ==
    /\ procs[p].pc = "write"
    /\ keyFile' = Overwrite(keyFile, procs[p].text)
    /\ procs' = [procs EXCEPT ![p].pc = "done"]
    /\ UNCHANGED <<envFile, storeVars, mgrKey, keyBranch, saFile, saResult,
                   oauthVars, faceVars, cryptoVars, lastText, tool, wf>>

NextKeyRace ==
    \/ \E p \in Procs : KeyCheck(p)
    \/ \E p \in Procs : KeyLoad(p)
    \/ \E p \in Procs, generated \in Keys : KeyOpen(p, generated)
    \/ \E p \in Procs : KeyWrite(p)

SpecKeyRace == InitKeyRace /\ [][NextKeyRace]_vars

\* C28: when two processes run _get_or_create_encryption_key while the key
\* file is absent, under every interleaving of their exists-check and write
\* steps both end up holding the same key, the final content of the key file.
C28_BothHoldTheFileKey ==
    AllDone => \A p \in Procs : procs[p].text = keyFile

----------------------------------------------------------------------------
(* The tool wrappers of mcp_server_gmail_sa.py and mcp_server_gdrive_sa.py. *)
(* Each asks the manager for the service-account credentials, builds the    *)
(* remote service and issues its API calls; everything runs inside one      *)
(* try/except that turns an exception into a failure result.                *)

ToolNames ==
    {"send_email", "get_recent_emails", "create_google_sheet",
     "upload_file_to_drive", "list_drive_files"}

\* what the remote side does once a wrapper calls it
RemoteOutcomes == {"ok", "error"}

\* the result of a wrapper, whether it built a service, and the number of
\* API calls it issued
ToolResult(success, error, built, issued) ==
    [success |-> success, error |-> error, built |-> built, calls |-> issued]

\* a wrapper whose first API call raises: the except clause returns a failure
Raised(error) == ToolResult(FALSE, error, TRUE, 1)

\* a mutant of send_email: the service is built before the credentials are
\* looked at
SendEmailBuildsFirst(creds, remote) ==
    IF creds = "None"
    THEN ToolResult(FALSE, "Service account credentials not configured", TRUE, 0)
    ELSE IF remote = "ok"
    THEN ToolResult(TRUE, "None", TRUE, 1)
    ELSE Raised("Failed to send email")

\* mcp_server_gmail_sa.send_email
send_email(creds, remote) ==
    IF creds = "None"
    THEN ToolResult(FALSE, "Service account credentials not configured", FALSE, 0)
    ELSE IF remote = "ok"
    THEN ToolResult(TRUE, "None", TRUE, 1)
    ELSE Raised("Failed to send email")

\* mcp_server_gmail_sa.get_recent_emails: the list call and one get call for
\* the message found
get_recent_emails(creds, remote) ==
    IF creds = "None"
    THEN ToolResult(FALSE, "Service account not configured", FALSE, 0)
    ELSE IF remote = "ok"
    THEN ToolResult(TRUE, "None", TRUE, 2)
    ELSE Raised("error text")

\* mcp_server_gdrive_sa.create_google_sheet: create, values.update and
\* permissions.create
create_google_sheet(creds, remote) ==
    IF creds = "None"
    THEN ToolResult(FALSE, "Service account credentials not configured", FALSE, 0)
    ELSE IF remote = "ok"
    THEN ToolResult(TRUE, "None", TRUE, 3)
    ELSE Raised("Failed to create Google Sheet")

\* mcp_server_gdrive_sa.upload_file_to_drive: the local file may be missing;
\* files.create and permissions.create
upload_file_to_drive(creds, remote, fileExists) ==
    IF creds = "None"
    THEN ToolResult(FALSE, "Service account credentials not configured", FALSE, 0)
    ELSE IF ~fileExists
    THEN ToolResult(FALSE, "File not found", TRUE, 0)
    ELSE IF remote = "ok"
    THEN ToolResult(TRUE, "None", TRUE, 2)
    ELSE Raised("Failed to upload file")

\* mcp_server_gdrive_sa.list_drive_files
list_drive_files(creds, remote) ==
    IF creds = "None"
    THEN ToolResult(FALSE, "Service account not configured", FALSE, 0)
    ELSE IF remote = "ok"
    THEN ToolResult(TRUE, "None", TRUE, 1)
    ELSE Raised("error text")

ToolCall(name, creds, remote, fileExists) ==
    CASE name = "send_email"           -> send_email(creds, remote)
      [] name = "get_recent_emails"    -> get_recent_emails(creds, remote)
      [] name = "create_google_sheet"  -> create_google_sheet(creds, remote)
      [] name = "upload_file_to_drive" ->
             upload_file_to_drive(creds, remote, fileExists)
      [] name = "list_drive_files"     -> list_drive_files(creds, remote)

\* a client calls one of the tools in the process that holds the manager
CallTool(name, remote, fileExists) ==
    /\ mgrKey # NoKey
    /\ LET creds == get_service_account_credentials(saFile)
           r     == ToolCall(name, creds, remote, fileExists)
       IN tool' = [name |-> name, creds |-> creds, success |-> r.success,
                   error |-> r.error, built |-> r.built, calls |-> r.calls]
    /\ UNCHANGED <<envFile, storeVars, mgrVars, oauthVars, faceVars,
                   cryptoVars, procs, lastText, wf>>

NextTools ==
    \/ \E generated \in Keys : NewManager(generated, NoEnviron)
    \/ ExitProcess
    \/ \E src \in SourceFiles \cup {NoSA} : SetServiceAccount(src)
    \/ \E name \in ToolNames, remote \in RemoteOutcomes, fileExists \in BOOLEAN :
           CallTool(name, remote, fileExists)

SpecTools == InitFacade /\ [][NextTools]_vars

NotConfiguredTexts ==
    {"Service account credentials not configured",
     "Service account not configured"}

\* C29: when get_service_account_credentials returns None, every tool
\* wrapper returns a failure result that says the service account is not
\* configured; it builds no remote service, issues no API call and does not
\* raise.
C29_UnconfiguredToolsFailCleanly ==
    (tool.name # "none" /\ tool.creds = "None")
    => /\ ~tool.success
       /\ tool.error \in NotConfiguredTexts
       /\ ~tool.built
       /\ tool.calls = 0

\* C29 witness: send_email was called while the stored key file was one that
\* a failed set_service_account_credentials had left behind and that does
\* not load, and it answered that nothing is configured
C29_Witness ==
    /\ tool.name = "send_email"
    /\ tool.creds = "None"
    /\ tool.error = "Service account credentials not configured"
    /\ saFile # NoSA
    /\ saResult = "False"

----------------------------------------------------------------------------
(* F1WorkflowOrchestrator.execute_f1_workflow: fetch the data, create the  *)
(* sheet, send the email, send the Telegram confirmation. The sheet and    *)
(* the email go through the tool wrappers above; the Telegram tool is an   *)
(* external collaborator that succeeds or fails.                           *)

\* most workflows one orchestrator is followed through
MaxRuns == 2

WorkflowSteps ==
    <<"f1_data_fetched", "google_sheet_created", "email_sent",
      "telegram_confirmation_sent">>

Optional(done, step) == IF done THEN <<step>> ELSE <<>>

\* a mutant of execute_f1_workflow: the counter is raised in the except
\* clause too
ExecuteCountsEveryRun(executed, sheetOk, emailOk, telegramOk) ==
    [sheet     |-> sheetOk,
     steps     |-> <<"f1_data_fetched">>
                   \o (IF sheetOk
                       THEN <<"google_sheet_created">>
                            \o Optional(emailOk, "email_sent")
                            \o Optional(telegramOk, "telegram_confirmation_sent")
                       ELSE <<>>),
     attempted |-> <<"f1_data", "google_sheet">>
                   \o (IF sheetOk THEN <<"email", "telegram">> ELSE <<>>),
     success   |-> sheetOk,
     error     |-> IF sheetOk THEN "None" ELSE "F1 Workflow failed",
     executed  |-> executed + 1]

\* execute_f1_workflow: workflow_result, the steps it attempted, and
\* status['workflows_executed'] afterwards
execute_f1_workflow(executed, sheetOk, emailOk, telegramOk) ==
    [sheet     |-> sheetOk,
     steps     |-> <<"f1_data_fetched">>
                   \o (IF sheetOk
                       THEN <<"google_sheet_created">>
                            \o Optional(emailOk, "email_sent")
                            \o Optional(telegramOk, "telegram_confirmation_sent")
                       ELSE <<>>),
     attempted |-> <<"f1_data", "google_sheet">>
                   \o (IF sheetOk THEN <<"email", "telegram">> ELSE <<>>),
     success   |-> sheetOk,
     error     |-> IF sheetOk THEN "None" ELSE "F1 Workflow failed",
     executed  |-> IF sheetOk THEN executed + 1 ELSE executed]

\* orchestrator.execute_f1_workflow() in the process that holds the manager
ExecuteWorkflow(remoteSheet, remoteEmail, telegramOk) ==
    /\ mgrKey # NoKey
    /\ wf.executed < MaxRuns
    /\ LET creds   == get_service_account_credentials(saFile)
           sheetOk == create_google_sheet(creds, remoteSheet).success
           emailOk == send_email(creds, remoteEmail).success
           r       == execute_f1_workflow(wf.executed, sheetOk, emailOk,
                                          telegramOk)
       IN wf' = [ran |-> TRUE, sheet |-> r.sheet, steps |-> r.steps,
                 attempted |-> r.attempted, success |-> r.success,
                 error |-> r.error, before |-> wf.executed,
                 executed |-> r.executed]
    /\ UNCHANGED <<envFile, storeVars, mgrVars, oauthVars, faceVars,
                   cryptoVars, procs, lastText, tool>>

NextWorkflow ==
    \/ \E generated \in Keys : NewManager(generated, NoEnviron)
    \/ \E src \in SourceFiles \cup {NoSA} : SetServiceAccount(src)
    \/ \E remoteSheet \in RemoteOutcomes, remoteEmail \in RemoteOutcomes,
          telegramOk \in BOOLEAN :
           ExecuteWorkflow(remoteSheet, remoteEmail, telegramOk)

SpecWorkflow == InitFacade /\ [][NextWorkflow]_vars

\* position of a step in the order of the workflow
StepRank(step) ==
    CHOOSE i \in 1..Len(WorkflowSteps) : WorkflowSteps[i] = step

\* steps is a subsequence of WorkflowSteps, in order
InOrder(steps) ==
    /\ \A i \in 1..Len(steps) : steps[i] \in Range(WorkflowSteps)
    /\ \A i, j \in 1..Len(steps) :
           i < j => StepRank(steps[i]) < StepRank(steps[j])

\* C30: execute_f1_workflow attempts the email and Telegram steps only after
\* the sheet step succeeded; it reports success exactly when the sheet was
\* created, whatever became of the email and the Telegram message;
\* steps_completed is an in-order subsequence of the four steps that begins
\* with f1_data_fetched; workflows_executed grows by one on a successful run
\* and stays on a failed one.
C30_WorkflowFollowsTheSheet ==
    wf.ran
    => /\ (\E i \in 1..Len(wf.attempted) :
               wf.attempted[i] \in {"email", "telegram"}) => wf.sheet
       /\ wf.success = wf.sheet
       /\ InOrder(wf.steps)
       /\ wf.steps # <<>>
       /\ wf.steps[1] = "f1_data_fetched"
       /\ wf.executed = wf.before + (IF wf.success THEN 1 ELSE 0)

\* C30 witness: the second workflow of an orchestrator created the sheet,
\* failed to send the email and sent the Telegram message
C30_Witness ==
    /\ wf.ran
    /\ wf.success
    /\ wf.steps = <<"f1_data_fetched", "google_sheet_created",
                    "telegram_confirmation_sent">>
    /\ wf.before = 1
    /\ wf.executed = 2

====
